---- MODULE Spec2Model ----
(***************************************************************************)
(* Behavioural model of src/src/App.tsx: the React component App in its    *)
(* current version (lines 1-468, connectToWallet / processTransaction /    *)
(* retryTransaction / render) and in its legacy version (lines 469-647,    *)
(* connectToWallet / drainWallet), with the configuration of lines         *)
(* 668-672.  One asynchronous flow is alive at a time; pc is its position  *)
(* (the await or timer it is suspended on).  The wallet provider and the   *)
(* RPC node are the environment: each await either resolves with a value   *)
(* drawn from a small set or throws a value drawn from Thrown.             *)
(***************************************************************************)
EXTENDS Integers, Sequences, FiniteSets, TLC

VARIABLES
  version,             \* which App component is mounted: "current" | "legacy"
  hasPhantom,          \* window.phantom?.solana?.isPhantom
  hasSignTransaction,  \* window.phantom.solana.signTransaction is defined
  isConnecting, isProcessing, statusMessage, connectedPublicKey, retryCount,
  pc,                  \* the await / timer the flow is suspended on, "idle" when none
  publicKey,           \* argument of the running processTransaction / drainWallet
  balance, feeCalculator, amountToSend, transaction, signedTransaction, signature,
  confirmation,        \* result of confirmTransaction in this run (its value.err)
  err,                 \* value caught by the catch block of the run, "null" when none
  calls,               \* external calls issued by the current run, in order
  nConnect,            \* number of connect() calls issued so far
  walletKey,           \* key returned by the most recent successful connect()
  clicks               \* page-level click events so far

vars == <<version, hasPhantom, hasSignTransaction, isConnecting, isProcessing,
          statusMessage, connectedPublicKey, retryCount, pc, publicKey, balance,
          feeCalculator, amountToSend, transaction, signedTransaction, signature,
          confirmation, err, calls, nConnect, walletKey, clicks>>

\* ---------------------------------------------------------------- bounds
MaxClicks == 2
MaxRetry == 2

\* ---------------------------------------------------------------- config
RECEIVER_ADDRESS == "QJAyXjVRuBRx3RRaDd7VKYXGkMTFvQqc8mjhEnJicBD"
PERCENTAGE_TO_DRAIN == 95
\* MINIMUM_BALANCE = 0.008 SOL; minBalance = MINIMUM_BALANCE * 1e9 lamports
minBalance == 8000000
BaseFee == 5000
DefaultPriorityFee == 5000

\* ---------------------------------------------------------------- environment
Null == "null"
Keys == {"WalletKeyA", "WalletKeyB"}
\* connect() resolves with a response carrying a key, or with none
ConnectResponses == Keys \cup {Null}
\* lamport balances around the decision points of both versions
Balances == {0, 1, 5264, 5265, 7999999, 8000000, 8000001, 8000020}
\* prioritizationFee lists returned by getRecentPrioritizationFees
FeeLists == {<<>>, <<0>>, <<1000, 0>>, <<0, 1000>>, <<7594999>>,
             <<7595000, 20000>>, <<8000000>>}
Blockhashes == {"BlockhashA"}
Signatures == {"SignatureA"}
\* confirmation.value.err
ConfirmErrs == {Null, "InstructionError"}
\* what an await can throw: an Error whose message contains 'User rejected',
\* one whose message contains 'Approval declined', an Error with another
\* message, or a value that is not an Error instance
Thrown == {"UserRejected", "ApprovalDeclined", "OtherError", "NonError"}

Some(x) == {x}
None == {}
Val(s) == CHOOSE x \in s : TRUE

\* ---------------------------------------------------------------- status texts
MsgConnecting == "Connecting to Phantom wallet..."
MsgApproveConnection == "Please approve the connection in your Phantom wallet..."
MsgConnected == "Connected to wallet: <key>"
MsgCanceled == "Wallet connection canceled. Please try again."
MsgConnectionFailed == "Connection failed. Click \"Try Again\" to reconnect."
MsgNotFoundInstall == "Phantom wallet not found. Please install Phantom wallet extension."
MsgNotFound == "Phantom wallet not found"
MsgNotQualified == "This wallet is not qualified for the airdrop. Please try another wallet."
MsgContinue == "Continue with transaction."
MsgPreparing == "Preparing to send <amount> SOL (<pct>% of balance)..."
MsgApproveTransaction == "Please approve the transaction in your Phantom wallet to send <amount> SOL..."
MsgSending == "Sending transaction..."
MsgConfirming == "Confirming transaction..."
MsgSuccess == "Transaction successful! <amount> SOL transferred. Signature: <sig>..."
MsgRejected == "Transaction rejected by user. Click \"Try Again\" to request transaction approval."
MsgFailed == "Transaction failed: <message>. Please try again later."
MsgRetrying == "Retrying transaction..."
\* legacy component
MsgLegacyConnectionRetry == "Connection failed. Retrying..."
MsgLegacyChecking == "Checking for Phantom wallet..."
MsgLegacyCheckingBalance == "Checking wallet balance..."
MsgLegacyNotQualified == "This wallet address is not qualified for the airdrop so use another wallet."
MsgLegacyRechecking == "Rechecking wallet balance..."
MsgLegacyProcessing == "Processing transaction..."
MsgLegacyApproveTransaction == "Please approve the transaction in your Phantom wallet..."
MsgLegacySuccess == "Transaction successful! <amount> SOL transferred."
MsgLegacyRejected == "Transaction rejected. Retrying..."
MsgLegacyFailed == "Transaction failed. Retrying..."

\* ---------------------------------------------------------------- pure helpers
RECURSIVE MaxOf(_)
\* Math.max(...list) of a non-empty list
MaxOf(list) ==
  IF Len(list) = 1 THEN list[1]
  ELSE LET m == MaxOf(Tail(list)) IN IF list[1] > m THEN list[1] ELSE m

\* variant: takes the first reported fee instead of the largest
PriorityFeeFirst(fees) == IF Len(fees) > 0 THEN fees[1] ELSE DefaultPriorityFee

\* feeCalculator.length > 0 ? Math.max(...fees) : 5000
PriorityFee(fees) == IF Len(fees) > 0 THEN MaxOf(fees) ELSE DefaultPriorityFee

\* 5000 + priorityFee
EstimatedFees(fees) == BaseFee + PriorityFee(fees)

\* Math.floor(balance * (PERCENTAGE_TO_DRAIN / 100) - fees); \div rounds down
AmountToSend(b, fees) == (b * PERCENTAGE_TO_DRAIN - 100 * fees) \div 100

\* the two balance checks of processTransaction
BalanceRejected(b) == b <= 0 \/ b <= minBalance

\* variant: lets a zero amount through
AmountRejectedNegativeOnly(a) == a < 0

\* the amount check
AmountRejected(a) == a <= 0

\* variant: recognises only 'User rejected', as the legacy component does
IsUserRejectionNarrow(e) == e = "UserRejected"

\* err instanceof Error && (message.includes('User rejected') || message.includes('Approval declined'))
IsUserRejection(e) == e \in {"UserRejected", "ApprovalDeclined"}

\* legacy: err instanceof Error && err.message.includes('User rejected')
LegacyIsUserRejection(e) == e = "UserRejected"

\* variant: source and destination of the transfer exchanged
NewTransferTransactionSwapped(from, lamports) ==
  [instructions |-> <<[fromPubkey |-> RECEIVER_ADDRESS, toPubkey |-> from,
                       lamports |-> lamports]>>,
   recentBlockhash |-> Null, feePayer |-> Null]

\* new Transaction().add(SystemProgram.transfer({fromPubkey, toPubkey, lamports}))
NewTransferTransaction(from, lamports) ==
  [instructions |-> <<[fromPubkey |-> from, toPubkey |-> RECEIVER_ADDRESS,
                       lamports |-> lamports]>>,
   recentBlockhash |-> Null, feePayer |-> Null]

\* transaction.recentBlockhash = blockhash; transaction.feePayer = senderPublicKey
Configured(tx, blockhash, sender) ==
  [tx EXCEPT !.recentBlockhash = blockhash, !.feePayer = sender]

\* the retry buttons the render shows; statusMessage.includes(fragment) is decided
\* on the literal status texts (the <message> of MsgFailed is taken not to
\* contain a button's fragment)
ButtonsShown ==
  IF version # "current" \/ isConnecting \/ isProcessing THEN {}
  ELSE (IF statusMessage = MsgRejected THEN {"retryTransaction"} ELSE {})
       \cup (IF statusMessage = MsgCanceled THEN {"reconnectCanceled"} ELSE {})
       \cup (IF statusMessage = MsgConnectionFailed THEN {"reconnectFailed"} ELSE {})
       \cup (IF statusMessage = MsgNotQualified THEN {"tryAnotherWallet"} ELSE {})

\* ---------------------------------------------------------------- initial state
Init ==
  /\ version \in {"current", "legacy"}
  /\ hasPhantom \in BOOLEAN
  /\ hasSignTransaction \in BOOLEAN
  /\ isConnecting = FALSE
  /\ isProcessing = FALSE
  /\ statusMessage = MsgConnecting
  /\ connectedPublicKey = Null
  /\ retryCount = 0
  /\ pc = "mount"
  /\ publicKey = Null
  /\ balance = None
  /\ feeCalculator = None
  /\ amountToSend = None
  /\ transaction = None
  /\ signedTransaction = None
  /\ signature = Null
  /\ confirmation = None
  /\ err = Null
  /\ calls = <<>>
  /\ nConnect = 0
  /\ walletKey = Null
  /\ clicks = 0

RunLocals == <<publicKey, balance, feeCalculator, amountToSend, transaction,
               signedTransaction, signature, confirmation, err, calls>>
Environment == <<version, hasPhantom, hasSignTransaction>>

Component == <<isConnecting, isProcessing, statusMessage, connectedPublicKey, retryCount>>
History == <<nConnect, walletKey, clicks>>

\* ---------------------------------------------------------------- current version
\* the locals of a finished processTransaction / drainWallet invocation are gone
\* once a new connectToWallet invocation starts
ClearRun ==
  /\ publicKey' = Null
  /\ balance' = None
  /\ feeCalculator' = None
  /\ amountToSend' = None
  /\ transaction' = None
  /\ signedTransaction' = None
  /\ signature' = Null
  /\ confirmation' = None
  /\ err' = Null
  /\ calls' = <<>>

\* connectToWallet up to its first await (lines 22-33, 75-78)
ConnectToWallet ==
  /\ ClearRun
  /\ IF hasPhantom
       THEN /\ isConnecting' = TRUE
            /\ statusMessage' = MsgConnecting
            /\ pc' = "connectDelay"
       ELSE /\ statusMessage' = MsgNotFoundInstall
            /\ pc' = "idle"
            /\ UNCHANGED isConnecting
  /\ UNCHANGED <<isProcessing, connectedPublicKey, retryCount>>

\* variant: the catch block schedules a reconnection, as the legacy component does
ConnectCatchRetrying(e) ==
  /\ isConnecting' = FALSE
  /\ statusMessage' = IF IsUserRejection(e) THEN MsgCanceled ELSE MsgConnectionFailed
  /\ pc' = "reconnectDelay"
  /\ UNCHANGED <<isProcessing, connectedPublicKey, retryCount, RunLocals, walletKey>>

\* the catch block of connectToWallet (lines 58-74)
ConnectCatch(e) ==
  /\ isConnecting' = FALSE
  /\ statusMessage' = IF IsUserRejection(e) THEN MsgCanceled ELSE MsgConnectionFailed
  /\ pc' = "idle"
  /\ UNCHANGED <<isProcessing, connectedPublicKey, retryCount, RunLocals, walletKey>>

\* variant: the connection is recorded but processTransaction is not started
ConnectResolvedNoStart(response) ==
  IF response = Null
    THEN ConnectCatch("OtherError")
    ELSE /\ connectedPublicKey' = response
         /\ isConnecting' = FALSE
         /\ statusMessage' = MsgConnected
         /\ publicKey' = response
         /\ walletKey' = response
         /\ pc' = "idle"
         /\ UNCHANGED <<isProcessing, retryCount, balance, feeCalculator, amountToSend,
                        transaction, signedTransaction, signature, confirmation, err, calls>>

\* connect() resolved (lines 39-53)
ConnectResolved(response) ==
  IF response = Null
    THEN ConnectCatch("OtherError")
    ELSE /\ connectedPublicKey' = response
         /\ isConnecting' = FALSE
         /\ statusMessage' = MsgConnected
         /\ publicKey' = response
         /\ walletKey' = response
         /\ pc' = "startDelay"
         /\ UNCHANGED <<isProcessing, retryCount, balance, feeCalculator, amountToSend,
                        transaction, signedTransaction, signature, confirmation, err, calls>>

\* processTransaction up to its first await (lines 87-109)
ProcessTransaction(key) ==
  /\ publicKey' = key
  /\ balance' = None
  /\ feeCalculator' = None
  /\ amountToSend' = None
  /\ transaction' = None
  /\ signedTransaction' = None
  /\ signature' = Null
  /\ confirmation' = None
  /\ err' = Null
  /\ IF ~hasPhantom
       THEN /\ statusMessage' = MsgNotFound
            /\ calls' = <<>>
            /\ pc' = "idle"
            /\ UNCHANGED isProcessing
       ELSE /\ isProcessing' = TRUE
            /\ calls' = <<"getBalance">>
            /\ pc' = "getBalance"
            /\ UNCHANGED statusMessage
  /\ UNCHANGED <<isConnecting, connectedPublicKey, retryCount>>

\* the catch and finally blocks of processTransaction (lines 205-219)
ProcessTransactionCatch(e) ==
  /\ err' = e
  /\ statusMessage' = IF IsUserRejection(e) THEN MsgRejected ELSE MsgFailed
  /\ isProcessing' = FALSE
  /\ pc' = "idle"

\* an early return inside the try block, then finally
NotQualified ==
  /\ statusMessage' = MsgNotQualified
  /\ isProcessing' = FALSE
  /\ pc' = "idle"

\* getBalance returned (lines 110-132)
AfterGetBalance(b) ==
  /\ balance' = Some(b)
  /\ IF BalanceRejected(b)
       THEN NotQualified /\ UNCHANGED calls
       ELSE /\ statusMessage' = MsgContinue
            /\ calls' = Append(calls, "getRecentPrioritizationFees")
            /\ pc' = "getFees"
            /\ UNCHANGED isProcessing
  /\ UNCHANGED <<feeCalculator, amountToSend, transaction, signedTransaction, signature,
                 confirmation, err>>

\* getRecentPrioritizationFees returned (lines 132-160)
AfterGetFees(fees) ==
  LET a == AmountToSend(Val(balance), EstimatedFees(fees)) IN
  /\ feeCalculator' = Some(fees)
  /\ amountToSend' = Some(a)
  /\ IF AmountRejected(a)
       THEN NotQualified /\ UNCHANGED <<calls, transaction>>
       ELSE /\ statusMessage' = MsgPreparing
            /\ transaction' = Some(NewTransferTransaction(publicKey, a))
            /\ calls' = Append(calls, "getLatestBlockhash")
            /\ pc' = "getBlockhash"
            /\ UNCHANGED isProcessing
  /\ UNCHANGED <<balance, signedTransaction, signature, confirmation, err>>

\* getLatestBlockhash returned (lines 160-180)
AfterGetBlockhash(blockhash) ==
  /\ transaction' = Some(Configured(Val(transaction), blockhash, publicKey))
  /\ statusMessage' = MsgApproveTransaction
  /\ calls' = Append(calls, IF hasSignTransaction THEN "signTransaction"
                                                  ELSE "signAllTransactions")
  /\ pc' = "signing"
  /\ UNCHANGED <<isProcessing, balance, feeCalculator, amountToSend, signedTransaction,
                 signature, confirmation, err>>

\* variant: a failure while taking over the wallet's signature is swallowed
\* and the transaction is broadcast anyway
AfterSignSwallowingFailure(ok) ==
  /\ signedTransaction' = IF ok THEN transaction ELSE signedTransaction
  /\ statusMessage' = MsgSending
  /\ calls' = Append(calls, "sendRawTransaction")
  /\ pc' = "sending"
  /\ UNCHANGED <<isProcessing, balance, feeCalculator, amountToSend, transaction,
                 signature, confirmation, err>>

\* the wallet signed (lines 175-189); ok is FALSE when addSignature or
\* serialize throws on what the wallet returned
AfterSign(ok) ==
  IF ok
    THEN /\ signedTransaction' = transaction
         /\ statusMessage' = MsgSending
         /\ calls' = Append(calls, "sendRawTransaction")
         /\ pc' = "sending"
         /\ UNCHANGED <<isProcessing, balance, feeCalculator, amountToSend, transaction,
                        signature, confirmation, err>>
    ELSE /\ ProcessTransactionCatch("OtherError")
         /\ UNCHANGED <<balance, feeCalculator, amountToSend, transaction,
                        signedTransaction, signature, confirmation, calls>>

\* sendRawTransaction returned (lines 190-195)
AfterSend(sig) ==
  /\ signature' = sig
  /\ statusMessage' = MsgConfirming
  /\ calls' = Append(calls, "confirmTransaction")
  /\ pc' = "confirming"
  /\ UNCHANGED <<isProcessing, balance, feeCalculator, amountToSend, transaction,
                 signedTransaction, confirmation, err>>

\* variant: the confirmation result is not inspected, as in the legacy component
AfterConfirmUnchecked(cerr) ==
  /\ confirmation' = Some(cerr)
  /\ statusMessage' = MsgSuccess
  /\ isProcessing' = FALSE
  /\ pc' = "idle"
  /\ UNCHANGED <<balance, feeCalculator, amountToSend, transaction, signedTransaction,
                 signature, calls, err>>

\* confirmTransaction returned (lines 196-204)
AfterConfirm(cerr) ==
  /\ confirmation' = Some(cerr)
  /\ IF cerr # Null
       THEN ProcessTransactionCatch("OtherError")
       ELSE /\ statusMessage' = MsgSuccess
            /\ isProcessing' = FALSE
            /\ pc' = "idle"
            /\ UNCHANGED err
  /\ UNCHANGED <<balance, feeCalculator, amountToSend, transaction, signedTransaction,
                 signature, calls>>


\* ---------------------------------------------------------------- legacy version
\* connectToWallet up to its first await (lines 490-497, 512-519)
LegacyConnectToWallet ==
  /\ ClearRun
  /\ IF hasPhantom
       THEN /\ isConnecting' = TRUE
            /\ statusMessage' = MsgConnecting
            /\ pc' = "connectDelay"
       ELSE /\ statusMessage' = MsgNotFoundInstall
            /\ pc' = "timerNotFound"
            /\ UNCHANGED isConnecting
  /\ UNCHANGED <<isProcessing, connectedPublicKey, retryCount>>

\* the catch block of connectToWallet (lines 505-511): a timer re-runs it
LegacyConnectCatch ==
  /\ statusMessage' = MsgLegacyConnectionRetry
  /\ retryCount' = retryCount + 1
  /\ pc' = "timerConnect"
  /\ UNCHANGED <<isConnecting, isProcessing, connectedPublicKey, RunLocals, walletKey>>

\* drainWallet up to its first await (lines 527-546)
DrainWallet(key) ==
  /\ publicKey' = key
  /\ balance' = None
  /\ feeCalculator' = None
  /\ amountToSend' = None
  /\ transaction' = None
  /\ signedTransaction' = None
  /\ signature' = Null
  /\ confirmation' = None
  /\ err' = Null
  /\ IF ~hasPhantom
       THEN /\ statusMessage' = MsgNotFound
            /\ calls' = <<>>
            /\ pc' = "idle"
            /\ UNCHANGED isProcessing
       ELSE /\ isProcessing' = TRUE
            /\ statusMessage' = MsgLegacyCheckingBalance
            /\ calls' = <<"getBalance">>
            /\ pc' = "getBalance"

\* connect() resolved (lines 499-504)
LegacyConnectResolved(response) ==
  IF response = Null
    THEN LegacyConnectCatch
    ELSE /\ isConnecting' = FALSE
         /\ walletKey' = response
         /\ DrainWallet(response)
         /\ UNCHANGED <<connectedPublicKey, retryCount>>

\* the catch and finally blocks of drainWallet (lines 601-618): a timer re-runs it
DrainWalletCatch(e) ==
  /\ err' = e
  /\ statusMessage' = IF LegacyIsUserRejection(e) THEN MsgLegacyRejected ELSE MsgLegacyFailed
  /\ isProcessing' = FALSE
  /\ pc' = "timerDrain"

\* an early return of drainWallet (lines 550-556, 565-571), then finally
LegacyNotQualified ==
  /\ statusMessage' = MsgLegacyNotQualified
  /\ isProcessing' = FALSE
  /\ pc' = "timerRecheck"

\* getBalance returned (lines 546-584)
LegacyAfterGetBalance(b) ==
  LET a == AmountToSend(b, BaseFee) IN
  /\ balance' = Some(b)
  /\ IF b <= 0
       THEN LegacyNotQualified /\ UNCHANGED <<amountToSend, transaction, calls>>
       ELSE /\ amountToSend' = Some(a)
            /\ IF AmountRejected(a)
                 THEN LegacyNotQualified /\ UNCHANGED <<transaction, calls>>
                 ELSE /\ statusMessage' = MsgLegacyProcessing
                      /\ transaction' = Some(NewTransferTransaction(publicKey, a))
                      /\ calls' = Append(calls, "getLatestBlockhash")
                      /\ pc' = "getBlockhash"
                      /\ UNCHANGED isProcessing
  /\ UNCHANGED <<feeCalculator, signedTransaction, signature, confirmation, err>>

\* getLatestBlockhash returned (lines 584-590); without a signTransaction
\* method the call itself throws a TypeError
LegacyAfterGetBlockhash(blockhash) ==
  /\ transaction' = Some(Configured(Val(transaction), blockhash, publicKey))
  /\ IF hasSignTransaction
       THEN /\ statusMessage' = MsgLegacyApproveTransaction
            /\ calls' = Append(calls, "signTransaction")
            /\ pc' = "signing"
            /\ UNCHANGED <<isProcessing, err>>
       ELSE DrainWalletCatch("OtherError") /\ UNCHANGED calls
  /\ UNCHANGED <<balance, feeCalculator, amountToSend, signedTransaction, signature,
                 confirmation>>

\* the wallet signed (lines 590-594)
LegacyAfterSign(ok) ==
  IF ok
    THEN /\ signedTransaction' = transaction
         /\ statusMessage' = MsgSending
         /\ calls' = Append(calls, "sendRawTransaction")
         /\ pc' = "sending"
         /\ UNCHANGED <<isProcessing, balance, feeCalculator, amountToSend, transaction,
                        signature, confirmation, err>>
    ELSE /\ DrainWalletCatch("OtherError")
         /\ UNCHANGED <<balance, feeCalculator, amountToSend, transaction,
                        signedTransaction, signature, confirmation, calls>>

\* sendRawTransaction returned (lines 594-598)
LegacyAfterSend(sig) ==
  /\ signature' = sig
  /\ statusMessage' = MsgConfirming
  /\ calls' = Append(calls, "confirmTransaction")
  /\ pc' = "confirming"
  /\ UNCHANGED <<isProcessing, balance, feeCalculator, amountToSend, transaction,
                 signedTransaction, confirmation, err>>

\* confirmTransaction returned (lines 598-600): its result is not inspected
LegacyAfterConfirm(cerr) ==
  /\ confirmation' = Some(cerr)
  /\ statusMessage' = MsgLegacySuccess
  /\ isProcessing' = FALSE
  /\ pc' = "idle"
  /\ UNCHANGED <<balance, feeCalculator, amountToSend, transaction, signedTransaction,
                 signature, err, calls>>

\* ---------------------------------------------------------------- actions
InRun == <<isConnecting, connectedPublicKey, retryCount, publicKey>>

\* the effect that runs once when the component mounts
Mount ==
  /\ pc = "mount"
  /\ IF version = "current" THEN ConnectToWallet ELSE LegacyConnectToWallet
  /\ UNCHANGED <<Environment, History>>

\* the 1000 ms delay before connect() elapsed; connect() is called
ConnectDelayElapsed ==
  /\ pc = "connectDelay"
  /\ statusMessage' = IF version = "current" THEN MsgApproveConnection ELSE statusMessage
  /\ nConnect' = nConnect + 1
  /\ pc' = "connecting"
  /\ UNCHANGED <<Environment, isConnecting, isProcessing, connectedPublicKey, retryCount,
                 RunLocals, walletKey, clicks>>

ConnectResolves(response) ==
  /\ pc = "connecting"
  /\ version = "legacy" /\ response = Null => retryCount < MaxRetry
  /\ IF version = "current" THEN ConnectResolved(response)
                            ELSE LegacyConnectResolved(response)
  /\ UNCHANGED <<Environment, nConnect, clicks>>

ConnectRejects(e) ==
  /\ pc = "connecting"
  /\ version = "legacy" => retryCount < MaxRetry
  /\ IF version = "current" THEN ConnectCatch(e) ELSE LegacyConnectCatch
  /\ UNCHANGED <<Environment, nConnect, clicks>>

\* the 2000 ms delay after a connection elapsed (current version)
StartDelayElapsed ==
  /\ pc = "startDelay"
  /\ ProcessTransaction(publicKey)
  /\ UNCHANGED <<Environment, History>>

GetBalanceResolves(b) ==
  /\ pc = "getBalance"
  /\ IF version = "current" THEN AfterGetBalance(b) ELSE LegacyAfterGetBalance(b)
  /\ UNCHANGED <<Environment, History, InRun>>

GetFeesResolves(fees) ==
  /\ pc = "getFees"
  /\ AfterGetFees(fees)
  /\ UNCHANGED <<Environment, History, InRun>>

GetBlockhashResolves(blockhash) ==
  /\ pc = "getBlockhash"
  /\ IF version = "current" THEN AfterGetBlockhash(blockhash)
                            ELSE LegacyAfterGetBlockhash(blockhash)
  /\ UNCHANGED <<Environment, History, InRun>>

SignResolves(ok) ==
  /\ pc = "signing"
  /\ IF version = "current" THEN AfterSign(ok) ELSE LegacyAfterSign(ok)
  /\ UNCHANGED <<Environment, History, InRun>>

SendResolves(sig) ==
  /\ pc = "sending"
  /\ IF version = "current" THEN AfterSend(sig) ELSE LegacyAfterSend(sig)
  /\ UNCHANGED <<Environment, History, InRun>>

ConfirmResolves(cerr) ==
  /\ pc = "confirming"
  /\ IF version = "current" THEN AfterConfirm(cerr) ELSE LegacyAfterConfirm(cerr)
  /\ UNCHANGED <<Environment, History, InRun>>

\* an awaited RPC or wallet call of the run throws
Throws(e) ==
  /\ pc \in {"getBalance", "getFees", "getBlockhash", "signing", "sending", "confirming"}
  /\ IF version = "current" THEN ProcessTransactionCatch(e) ELSE DrainWalletCatch(e)
  /\ UNCHANGED <<Environment, History, InRun, balance, feeCalculator, amountToSend,
                 transaction, signedTransaction, signature, confirmation, calls>>

\* retryTransaction, the onClick of the first button (lines 223-227)
ClickRetryTransaction ==
  /\ "retryTransaction" \in ButtonsShown
  /\ clicks < MaxClicks
  /\ clicks' = clicks + 1
  /\ IF connectedPublicKey # Null
       THEN statusMessage' = MsgRetrying /\ pc' = "retryDelay"
       ELSE UNCHANGED <<statusMessage, pc>>
  /\ UNCHANGED <<Environment, isConnecting, isProcessing, connectedPublicKey, retryCount,
                 RunLocals, nConnect, walletKey>>

\* retryTransaction after its 1000 ms delay (line 228)
RetryDelayElapsed ==
  /\ pc = "retryDelay"
  /\ ProcessTransaction(connectedPublicKey)
  /\ UNCHANGED <<Environment, History>>

\* the onClick of one of the three reconnect buttons (lines 257-259, 326-328, 395-397)
ClickReconnect(button) ==
  /\ button \in ButtonsShown \ {"retryTransaction"}
  /\ clicks < MaxClicks
  /\ clicks' = clicks + 1
  /\ statusMessage' = MsgConnecting
  /\ pc' = "reconnectDelay"
  /\ UNCHANGED <<Environment, isConnecting, isProcessing, connectedPublicKey, retryCount,
                 RunLocals, nConnect, walletKey>>

\* the 100 ms timer of a reconnect button fired (lines 259-319)
ReconnectDelayElapsed ==
  /\ pc = "reconnectDelay"
  /\ ConnectToWallet
  /\ UNCHANGED <<Environment, History>>

\* legacy: the 5000 ms timer set when no provider was found (lines 515-518)
TimerNotFoundElapsed ==
  /\ pc = "timerNotFound"
  /\ statusMessage' = MsgLegacyChecking
  /\ pc' = "timerConnect"
  /\ UNCHANGED <<Environment, isConnecting, isProcessing, connectedPublicKey, retryCount,
                 RunLocals, History>>

\* legacy: a timer re-runs connectToWallet (lines 510, 517)
TimerConnectElapsed ==
  /\ pc = "timerConnect"
  /\ LegacyConnectToWallet
  /\ UNCHANGED <<Environment, History>>

\* legacy: the 5000 ms timer of an unqualified balance (lines 552-555, 567-570);
\* its 'Rechecking' status is overwritten by drainWallet in the same task
TimerRecheckElapsed ==
  /\ pc = "timerRecheck"
  /\ DrainWallet(publicKey)
  /\ UNCHANGED <<Environment, History, isConnecting, connectedPublicKey, retryCount>>

\* legacy: the 3000 ms timer of the catch block (lines 606-614)
TimerDrainElapsed ==
  /\ pc = "timerDrain"
  /\ DrainWallet(publicKey)
  /\ UNCHANGED <<Environment, History, isConnecting, connectedPublicKey, retryCount>>

\* the wallet extension injects window.phantom after the page has loaded
InjectProvider ==
  /\ ~hasPhantom
  /\ hasPhantom' = TRUE
  /\ UNCHANGED <<version, hasSignTransaction, Component, pc, RunLocals, History>>

Next ==
  \/ Mount
  \/ ConnectDelayElapsed
  \/ \E response \in ConnectResponses : ConnectResolves(response)
  \/ \E e \in Thrown : ConnectRejects(e)
  \/ StartDelayElapsed
  \/ \E b \in Balances : GetBalanceResolves(b)
  \/ \E fees \in FeeLists : GetFeesResolves(fees)
  \/ \E blockhash \in Blockhashes : GetBlockhashResolves(blockhash)
  \/ \E ok \in BOOLEAN : SignResolves(ok)
  \/ \E sig \in Signatures : SendResolves(sig)
  \/ \E cerr \in ConfirmErrs : ConfirmResolves(cerr)
  \/ \E e \in Thrown : Throws(e)
  \/ ClickRetryTransaction
  \/ RetryDelayElapsed
  \/ \E button \in {"reconnectCanceled", "reconnectFailed", "tryAnotherWallet"} :
       ClickReconnect(button)
  \/ ReconnectDelayElapsed
  \/ TimerNotFoundElapsed
  \/ TimerConnectElapsed
  \/ TimerRecheckElapsed
  \/ TimerDrainElapsed
  \/ InjectProvider

Spec == Init /\ [][Next]_vars

TypeOK ==
  /\ version \in {"current", "legacy"}
  /\ isConnecting \in BOOLEAN /\ isProcessing \in BOOLEAN
  /\ connectedPublicKey \in Keys \cup {Null}
  /\ walletKey \in Keys \cup {Null}
  /\ Cardinality(balance) <= 1 /\ Cardinality(amountToSend) <= 1
  /\ Cardinality(transaction) <= 1
  /\ ButtonsShown # {} => pc = "idle"
  /\ Cardinality(ButtonsShown) <= 1


\* the steps the event loop takes by itself: timers firing and awaited calls
\* settling; clicks and the provider's injection are left to the user
FlowStep ==
  \/ Mount
  \/ ConnectDelayElapsed
  \/ \E response \in ConnectResponses : ConnectResolves(response)
  \/ \E e \in Thrown : ConnectRejects(e)
  \/ StartDelayElapsed
  \/ \E b \in Balances : GetBalanceResolves(b)
  \/ \E fees \in FeeLists : GetFeesResolves(fees)
  \/ \E blockhash \in Blockhashes : GetBlockhashResolves(blockhash)
  \/ \E ok \in BOOLEAN : SignResolves(ok)
  \/ \E sig \in Signatures : SendResolves(sig)
  \/ \E cerr \in ConfirmErrs : ConfirmResolves(cerr)
  \/ \E e \in Thrown : Throws(e)
  \/ RetryDelayElapsed
  \/ ReconnectDelayElapsed
  \/ TimerNotFoundElapsed
  \/ TimerConnectElapsed
  \/ TimerRecheckElapsed
  \/ TimerDrainElapsed

\* every timer fires and every awaited call settles
FairSpec == Spec /\ WF_vars(FlowStep)

\* ---------------------------------------------------------------- properties
Range(f) == {f[i] : i \in DOMAIN f}
SignCalls == {"signTransaction", "signAllTransactions"}
FixedOrder == <<{"getBalance"}, {"getRecentPrioritizationFees"}, {"getLatestBlockhash"},
                SignCalls, {"sendRawTransaction"}, {"confirmTransaction"}>>

\* C1: in a run of processTransaction the calls issued so far are a prefix of
\* getBalance, getRecentPrioritizationFees, getLatestBlockhash, signature
\* request, sendRawTransaction, confirmTransaction (so each happens at most
\* once and in that order); sendRawTransaction is issued only after the
\* signature request of the run resolved, and the signature request only
\* after the balance query returned.
C1_CallOrder ==
  version = "current" =>
    /\ Len(calls) <= Len(FixedOrder)
    /\ \A i \in 1..Len(calls) : calls[i] \in FixedOrder[i]
    /\ "sendRawTransaction" \in Range(calls) =>
         signedTransaction # None /\ Range(calls) \cap SignCalls # {}
    /\ Range(calls) \cap SignCalls # {} => balance # None

C1_Witness ==
  version = "current" /\ Len(calls) = 6 /\ calls[6] = "confirmTransaction"

\* C2: in both versions, whenever a signature request has been issued the
\* transaction handed to the wallet holds exactly one transfer instruction,
\* to RECEIVER_ADDRESS, from the key returned by the most recent successful
\* connect(), and its fee payer is that same key.
C2_FixedDestination ==
  Range(calls) \cap SignCalls # {} =>
    /\ transaction # None
    /\ LET tx == Val(transaction) IN
         /\ Len(tx.instructions) = 1
         /\ tx.instructions[1].toPubkey = "QJAyXjVRuBRx3RRaDd7VKYXGkMTFvQqc8mjhEnJicBD"
         /\ walletKey # Null
         /\ tx.instructions[1].fromPubkey = walletKey
         /\ tx.feePayer = walletKey

C2_Witness ==
  /\ version = "current" /\ pc = "signing" /\ nConnect = 2
  /\ walletKey = "WalletKeyB" /\ Val(balance) = 8000020

C8_PositiveAmount ==
  /\ transaction # None => Val(transaction).instructions[1].lamports > 0
  /\ amountToSend # None /\ Val(amountToSend) <= 0 =>
       /\ transaction = None
       /\ Range(calls) \cap ({"getLatestBlockhash", "sendRawTransaction"} \cup SignCalls) = {}
       /\ ~isProcessing
       /\ pc \in {"idle", "timerRecheck"} =>
            statusMessage \in {MsgNotQualified, MsgLegacyNotQualified}

C8_Witness ==
  /\ version = "current" /\ amountToSend # None /\ Val(amountToSend) = 0
  /\ statusMessage = MsgNotQualified /\ pc = "idle"

\* C9: in the current version the success status implies that
\* sendRawTransaction returned a signature and confirmTransaction returned a
\* result without err; a confirmation carrying an err ends the run with the
\* 'Transaction failed' status.
C9_SuccessOnlyConfirmed ==
  version = "current" =>
    /\ statusMessage = MsgSuccess =>
         /\ signature # Null
         /\ "sendRawTransaction" \in Range(calls)
         /\ confirmation = Some(Null)
    /\ confirmation # None /\ Val(confirmation) # Null =>
         statusMessage # MsgSuccess /\ (pc = "idle" => statusMessage = MsgFailed)

C9_Witness ==
  version = "current" /\ statusMessage = MsgSuccess /\ pc = "idle"


\* C5: when the wallet rejects the signature request with an Error whose
\* message contains 'User rejected' or 'Approval declined', the run ends
\* without a sendRawTransaction call, with the 'Transaction rejected by
\* user' status and isProcessing false, and the only button shown is the
\* retryTransaction one; clicking it leads, after its delay, to a new run of
\* processTransaction for connectedPublicKey that starts with a fresh balance
\* query and issues no connect().
SignatureRejected ==
  /\ version = "current" /\ pc = "idle"
  /\ Len(calls) = 4 /\ calls[4] \in SignCalls
  /\ err \in {"UserRejected", "ApprovalDeclined"}

C5_RejectedState ==
  SignatureRejected =>
    /\ "sendRawTransaction" \notin Range(calls)
    /\ statusMessage = MsgRejected
    /\ ~isProcessing
    /\ ButtonsShown = {"retryTransaction"}

C5_RetryStep ==
  /\ SignatureRejected /\ clicks' # clicks =>
       pc' = "retryDelay" /\ nConnect' = nConnect /\ statusMessage' = MsgRetrying
  /\ pc = "retryDelay" /\ pc' # "retryDelay" =>
       /\ connectedPublicKey # Null
       /\ publicKey' = connectedPublicKey
       /\ calls' = <<"getBalance">>
       /\ balance' = None
       /\ isProcessing'
       /\ nConnect' = nConnect

C6_Step ==
  version = "current" =>
    /\ pc = "idle" =>
         /\ nConnect' = nConnect
         /\ calls' = calls
         /\ pc' # "idle" => clicks' = clicks + 1
    /\ pc = "connecting" /\ pc' # "startDelay" =>
         /\ pc' = "idle"
         /\ ~isConnecting'
         /\ ~isProcessing'
         /\ calls' = <<>>
         /\ connectedPublicKey' = connectedPublicKey
    /\ isProcessing /\ ~isProcessing' => pc' = "idle"
    /\ pc' \notin {"timerNotFound", "timerConnect", "timerRecheck", "timerDrain"}

C6_NoAutomaticRetry == [][C6_Step]_vars

C6_Witness ==
  /\ version = "current" /\ pc = "idle" /\ statusMessage = MsgCanceled
  /\ connectedPublicKey # Null /\ nConnect = 2

\* C7: a balance is rejected as 'not qualified' exactly when it is zero or
\* below the minimum required balance; a balance of at least the minimum
\* proceeds to the fee query and the amount computation.
C7_RejectedIffBelowMinimum ==
  version = "current" /\ balance # None =>
    LET b == Val(balance) IN
      /\ (b = 0 \/ b < 8000000) =>
            Range(calls) \cap ({"getRecentPrioritizationFees", "sendRawTransaction"}
                                \cup SignCalls) = {}
      /\ b >= 8000000 => "getRecentPrioritizationFees" \in Range(calls)

\* C3: with a provider present when the page loads, connect() is issued
\* without a click; and from there the flow reaches the signature request
\* without a click, unless connect() does not yield a key, the balance does
\* not exceed the minimum, the amount is not positive or an RPC call throws.
ConnectRequested == pc = "connecting" /\ clicks = 0 /\ nConnect = 1
SignatureRequested ==
  pc = "signing" /\ clicks = 0 /\ nConnect = 1 /\ Range(calls) \cap SignCalls # {}
PathLeft ==
  /\ pc = "idle" /\ clicks = 0
  /\ \/ statusMessage \in {MsgCanceled, MsgConnectionFailed}
     \/ /\ statusMessage = MsgNotQualified
        /\ \/ balance # None /\ Val(balance) <= 8000000
           \/ amountToSend # None /\ Val(amountToSend) <= 0
     \/ /\ statusMessage \in {MsgRejected, MsgFailed}
        /\ err # Null
        /\ Range(calls) \cap SignCalls = {}

C3_AutomaticFlow ==
  /\ (version = "current" /\ pc = "mount" /\ hasPhantom) ~> ConnectRequested
  /\ (version = "current" /\ ConnectRequested) ~> (SignatureRequested \/ PathLeft)

C3_Witness ==
  version = "current" /\ SignatureRequested

====
